---- MODULE Spec2Model ----
(***************************************************************************)
(* Model of create_documentation.py: create_report() builds a python-docx  *)
(* Document by a fixed, straight-line sequence of add_heading /            *)
(* add_paragraph calls (some issued from for-loops over literal lists),    *)
(* two formatting assignments, one doc.save(OUTPUT_FILE) and one print.    *)
(* The document object is the sink; an exception raised by any of its      *)
(* calls propagates out of create_report(), which has no try/except.       *)
(*                                                                         *)
(* Texts are abbreviated to the first 28 ASCII characters of the literals. *)
(***************************************************************************)
EXTENDS Integers, Sequences, FiniteSets, TLC

VARIABLES
    plan,       \* the statement list of create_report() being executed
    run,        \* number of invocations of the script started so far
    status,     \* "idle" | "running" | "done" | "failed" (process outcome)
    pc,         \* index in plan of the next statement
    i,          \* number of items already consumed by the current for-loop
    doc,        \* local doc: the paragraphs of the in-memory Document
    title,      \* local title: index in doc of the paragraph bound at line 18
    calls,      \* append calls issued to the document in this run, in order
    saveCalls,  \* doc.save calls issued in this run
    printed,    \* the "Documentation report saved to" line was printed
    sinkError,  \* the exception the document raised in this run ("" = none)
    raised,     \* the exception that left create_report() ("" = none)
    file,       \* what OUTPUT_FILE holds on disk
    prev        \* call trace and document of the last earlier successful run

vars == <<plan, run, status, pc, i, doc, title, calls, saveCalls, printed,
          sinkError, raised, file, prev>>

\* Number of times the script is invoked in one behaviour.
MaxRuns == 2
\* Longest literal list a for-loop iterates over in the loop study.
MaxItems == 2

(***************************************************************************)
(* Statements                                                              *)
(***************************************************************************)
Stmt(op, line, text, level, style, items, bind, points) ==
    [op |-> op, line |-> line, text |-> text, level |-> level,
     style |-> style, items |-> items, bind |-> bind, points |-> points]

\* doc = Document()
StmtDocument(line) == Stmt("Document", line, "", 0, "", <<>>, "", 0)
\* [title =] doc.add_heading(text, level)
StmtHeading(line, text, level, bind) ==
    Stmt("add_heading", line, text, level, "", <<>>, bind, 0)
\* title.alignment = WD_ALIGN_PARAGRAPH.CENTER
StmtAlignment(line, bind, value) ==
    Stmt("set_alignment", line, "", 0, value, <<>>, bind, 0)
\* doc.add_paragraph(text)   (doc.add_paragraph() has text "")
StmtParagraph(line, text) == Stmt("add_paragraph", line, text, 0, "", <<>>, "", 0)
\* doc.paragraphs[-1].paragraph_format.space_after = Pt(points)
StmtSpaceAfter(line, points) ==
    Stmt("set_space_after", line, "", 0, "", <<>>, "", points)
\* for x in items: doc.add_paragraph(x, style="List Bullet")
StmtFor(line, items) == Stmt("for", line, "", 0, "List Bullet", items, "", 0)
\* doc.save(OUTPUT_FILE)
StmtSave(line) == Stmt("save", line, "", 0, "", <<>>, "", 0)
\* print(f"Documentation report saved to: {OUTPUT_FILE}")
StmtPrint(line) == Stmt("print", line, "", 0, "", <<>>, "", 0)

\* The body of create_report(), statement by statement.  A list literal and
\* the for-loop over it are one StmtFor, at the line of the loop.
ReportPlan ==
  <<
    StmtDocument(15),
    StmtHeading(18, "LinguaFlash", 0, "title"),
    StmtAlignment(19, "title", "CENTER"),
    StmtParagraph(20, "Language Learning Applicatio"),
    StmtParagraph(21, "Project Documentation Report"),
    StmtParagraph(22, ""),
    StmtSpaceAfter(23, 24),
    StmtHeading(28, "1. Requirements Analysis", 1, ""),
    StmtHeading(30, "1.1 Functional Requirements", 2, ""),
    StmtFor(39, <<"FR-1: Create and manage mult",
        "FR-2: Add, edit, and persist",
        "FR-3: Study mode allowing us",
        "FR-4: Dashboard displaying d",
        "FR-5: Persistent data storag",
        "FR-6: Sample data for first-">>),
    StmtHeading(42, "1.2 Non-Functional Requireme", 2, ""),
    StmtFor(49, <<"NFR-1: Modern, visually appe",
        "NFR-2: Responsive layout sup",
        "NFR-3: Cross-platform compat",
        "NFR-4: Lightweight installat">>),
    StmtHeading(52, "1.3 User Personas & Use Case", 2, ""),
    StmtParagraph(53, "Primary user: Language learn"),
    StmtHeading(62, "2. System Architecture Desig", 1, ""),
    StmtHeading(64, "2.1 High-Level Architecture", 2, ""),
    StmtParagraph(65, "LinguaFlash follows a monoli"),
    StmtHeading(70, "2.2 Component Diagram", 2, ""),
    StmtFor(76, <<"Presentation Layer: LinguaFl",
        "Application Layer: Event han",
        "Data Layer: load_data(), sav">>),
    StmtHeading(79, "2.3 Data Model", 2, ""),
    StmtParagraph(80, "Data structure stored in fla"),
    StmtParagraph(81, "{'decks': {deck_id: {name, f"),
    StmtParagraph(82, "Deck ID format: deck_{index}"),
    StmtHeading(84, "2.4 Technology Stack", 2, ""),
    StmtFor(91, <<"Python 3.7+",
        "CustomTkinter 5.2+ for moder",
        "Pillow for image support (op",
        "Standard library: json, rand">>),
    StmtHeading(97, "3. MVP (Minimum Viable Produ", 1, ""),
    StmtHeading(99, "3.1 MVP Scope", 2, ""),
    StmtFor(107, <<"Dashboard with deck list, st",
        "Create Deck: form with name,",
        "Add Cards: select deck, then",
        "Study Mode: flip cards, reve",
        "Sample Spanish Basics deck (">>),
    StmtHeading(110, "3.2 Implementation Highlight", 2, ""),
    StmtParagraph(111, "Single-file architecture (ma"),
    StmtHeading(117, "3.3 Key Methods", 2, ""),
    StmtFor(126, <<"show_dashboard()  Main hub w",
        "_show_create_deck()  Deck cr",
        "_show_add_cards(deck_id)  Ad",
        "_start_study(deck_id)  Shuff",
        "_show_study_screen()  Render",
        "_show_study_complete()  Sess">>),
    StmtHeading(132, "4. Testing", 1, ""),
    StmtHeading(134, "4.1 Test Strategy", 2, ""),
    StmtParagraph(135, "Testing was performed throug"),
    StmtHeading(140, "4.2 Test Cases Executed", 2, ""),
    StmtFor(149, <<"TC-1: Launch application  Ap",
        "TC-2: Create new deck  Form ",
        "TC-3: Add cards  Cards are s",
        "TC-4: Study mode  Cards shuf",
        "TC-5: Session complete  Corr",
        "TC-6: Data persistence  Clos">>),
    StmtHeading(152, "4.3 Bug Fixes Applied", 2, ""),
    StmtParagraph(153, "CTkFrame.configure() does no"),
    StmtHeading(160, "5. Documentation", 1, ""),
    StmtHeading(162, "5.1 README.md", 2, ""),
    StmtParagraph(163, "Project README includes: fea"),
    StmtHeading(168, "5.2 Inline Code Documentatio", 2, ""),
    StmtParagraph(169, "Docstrings for all major fun"),
    StmtHeading(174, "5.3 This Report", 2, ""),
    StmtParagraph(175, "Comprehensive project docume"),
    StmtHeading(183, "6. Final Presentation", 1, ""),
    StmtHeading(185, "6.1 Product Summary", 2, ""),
    StmtParagraph(186, "LinguaFlash is a desktop lan"),
    StmtHeading(193, "6.2 Deliverables", 2, ""),
    StmtFor(201, <<"main.py  Main application (~",
        "requirements.txt  Dependenci",
        "README.md  User guide",
        "flashcard_data.json  Generat",
        "LinguaFlash_Documentation_Re">>),
    StmtHeading(204, "6.3 Future Enhancements", 2, ""),
    StmtFor(212, <<"Spaced repetition algorithm ",
        "Audio pronunciation integrat",
        "Import/export decks (CSV, JS",
        "Edit and delete cards/decks.",
        "Light/dark theme toggle.">>),
    StmtHeading(215, "6.4 Conclusion", 2, ""),
    StmtParagraph(216, "The LinguaFlash project succ"),
    StmtSave(223),
    StmtPrint(224)
  >>

(***************************************************************************)
(* The document (sink)                                                     *)
(***************************************************************************)
HeadingCallShifted(text, level) ==
    [fn |-> "add_heading", text |-> text, level |-> level - 1]

HeadingCallClamped(text, level) ==
    [fn |-> "add_heading", text |-> text,
     level |-> IF level < 1 THEN 1 ELSE level]

\* doc.add_heading(text, level)
HeadingCall(text, level) ==
    [fn |-> "add_heading", text |-> text, level |-> level]

\* doc.add_paragraph(text, style=style); style "" is the default style
ParagraphCall(text, style) ==
    [fn |-> "add_paragraph", text |-> text, style |-> style]

\* The paragraph object an append call creates: no alignment, no spacing set.
NewBlock(call) == [call |-> call, alignment |-> "", space_after |-> 0]

\* Pt(points): a length in English Metric Units, 12700 per point.
Pt(points) == points * 12700

LoadedDocument == IF file.valid THEN file.body ELSE <<>>

\* Document(): a new document with an empty body.
EmptyDocument == <<>>

\* Exceptions an append call of the document can raise.
AppendErrors == {"ValueError", "KeyError"}
\* Exception doc.save raises when the path cannot be written.
SaveError == "OSError"

AbsentFile == [exists |-> FALSE, valid |-> FALSE, body |-> <<>>]
\* A file left half-written by a save that failed.
BrokenFile == [exists |-> TRUE, valid |-> FALSE, body |-> <<>>]
\* A document of an older version of the report found at OUTPUT_FILE.
StaleFile ==
    [exists |-> TRUE, valid |-> TRUE,
     body |-> <<NewBlock(HeadingCall("Old report", 0)),
                NewBlock(ParagraphCall("Old text", ""))>>]
\* What OUTPUT_FILE may hold before the first invocation.
PriorFiles == {AbsentFile, StaleFile}

NoPrev == [ok |-> FALSE, calls |-> <<>>, doc |-> <<>>]

(***************************************************************************)
(* Control                                                                 *)
(***************************************************************************)
\* create_report() is still executing: no exception has propagated out.
Running == status = "running"

AtStmt(op) == Running /\ pc <= Len(plan) /\ plan[pc].op = op

Cur == plan[pc]

NextCallReversed ==
    IF Cur.op = "add_heading" THEN HeadingCall(Cur.text, Cur.level)
    ELSE IF Cur.op = "for"
      THEN ParagraphCall(Cur.items[Len(Cur.items) - i], Cur.style)
    ELSE ParagraphCall(Cur.text, Cur.style)

\* The append call the statement at pc issues next.
NextCall ==
    IF Cur.op = "add_heading" THEN HeadingCall(Cur.text, Cur.level)
    ELSE IF Cur.op = "for" THEN ParagraphCall(Cur.items[i + 1], Cur.style)
    ELSE ParagraphCall(Cur.text, Cur.style)

\* An exception leaves create_report() as raised: there is no handler.
Propagate(e) == e

SavedMerged(old, d) ==
    [exists |-> TRUE, valid |-> TRUE, body |-> old.body \o d]

\* doc.save(path) writes the whole in-memory document over the path.
Saved(old, d) == [exists |-> TRUE, valid |-> TRUE, body |-> d]

Init ==
    /\ plan = ReportPlan
    /\ file \in PriorFiles
    /\ run = 0
    /\ status = "idle"
    /\ pc = 1
    /\ i = 0
    /\ doc = EmptyDocument
    /\ title = 0
    /\ calls = <<>>
    /\ saveCalls = 0
    /\ printed = FALSE
    /\ sinkError = ""
    /\ raised = ""
    /\ prev = NoPrev

\* python create_documentation.py: __main__ calls create_report()
StartRun ==
    /\ status # "running"
    /\ run < MaxRuns
    /\ run' = run + 1
    /\ status' = "running"
    /\ pc' = 1
    /\ i' = 0
    /\ doc' = EmptyDocument
    /\ title' = 0
    /\ calls' = <<>>
    /\ saveCalls' = 0
    /\ printed' = FALSE
    /\ sinkError' = ""
    /\ raised' = ""
    /\ prev' = IF status = "done"
               THEN [ok |-> TRUE, calls |-> calls, doc |-> doc]
               ELSE prev
    /\ UNCHANGED <<plan, file>>

\* doc = Document()
NewDocument ==
    /\ AtStmt("Document")
    /\ doc' = EmptyDocument
    /\ pc' = pc + 1
    /\ UNCHANGED <<plan, run, status, i, title, calls, saveCalls, printed,
                   sinkError, raised, file, prev>>

\* [title =] doc.add_heading(text, level), accepted by the document
AddHeading ==
    /\ AtStmt("add_heading")
    /\ calls' = Append(calls, NextCall)
    /\ doc' = Append(doc, NewBlock(NextCall))
    /\ title' = IF Cur.bind = "title" THEN Len(doc) + 1 ELSE title
    /\ pc' = pc + 1
    /\ UNCHANGED <<plan, run, status, i, saveCalls, printed, sinkError,
                   raised, file, prev>>

\* title.alignment = WD_ALIGN_PARAGRAPH.CENTER
SetAlignment ==
    /\ AtStmt("set_alignment")
    /\ title \in 1..Len(doc)
    /\ doc' = [doc EXCEPT ![title].alignment = Cur.style]
    /\ pc' = pc + 1
    /\ UNCHANGED <<plan, run, status, i, title, calls, saveCalls, printed,
                   sinkError, raised, file, prev>>

\* doc.add_paragraph(text), accepted by the document
AddParagraph ==
    /\ AtStmt("add_paragraph")
    /\ calls' = Append(calls, NextCall)
    /\ doc' = Append(doc, NewBlock(NextCall))
    /\ pc' = pc + 1
    /\ UNCHANGED <<plan, run, status, i, title, saveCalls, printed,
                   sinkError, raised, file, prev>>

SetSpaceAfterFirst ==
    /\ AtStmt("set_space_after")
    /\ Len(doc) >= 1
    /\ doc' = [doc EXCEPT ![1].space_after = Pt(Cur.points)]
    /\ pc' = pc + 1
    /\ UNCHANGED <<plan, run, status, i, title, calls, saveCalls, printed,
                   sinkError, raised, file, prev>>

\* doc.paragraphs[-1].paragraph_format.space_after = Pt(24)
SetSpaceAfter ==
    /\ AtStmt("set_space_after")
    /\ Len(doc) >= 1
    /\ doc' = [doc EXCEPT ![Len(doc)].space_after = Pt(Cur.points)]
    /\ pc' = pc + 1
    /\ UNCHANGED <<plan, run, status, i, title, calls, saveCalls, printed,
                   sinkError, raised, file, prev>>

\* one iteration of: for x in items: doc.add_paragraph(x, style="List Bullet")
ForBody ==
    /\ AtStmt("for")
    /\ i < Len(Cur.items)
    /\ calls' = Append(calls, NextCall)
    /\ doc' = Append(doc, NewBlock(NextCall))
    /\ i' = i + 1
    /\ UNCHANGED <<plan, run, status, pc, title, saveCalls, printed,
                   sinkError, raised, file, prev>>

ForExitEarly ==
    /\ AtStmt("for")
    /\ i >= Len(Cur.items) - 1
    /\ i' = 0
    /\ pc' = pc + 1
    /\ UNCHANGED <<plan, run, status, doc, title, calls, saveCalls, printed,
                   sinkError, raised, file, prev>>

\* the for-loop's list is exhausted: control falls to the next statement
ForExit ==
    /\ AtStmt("for")
    /\ i = Len(Cur.items)
    /\ i' = 0
    /\ pc' = pc + 1
    /\ UNCHANGED <<plan, run, status, doc, title, calls, saveCalls, printed,
                   sinkError, raised, file, prev>>

DocSaveAgain ==
    /\ AtStmt("save")
    /\ saveCalls' = saveCalls + 1
    /\ file' = Saved(file, doc)
    /\ pc' = IF saveCalls = 0 THEN pc ELSE pc + 1
    /\ UNCHANGED <<plan, run, status, i, doc, title, calls, printed,
                   sinkError, raised, prev>>

\* doc.save(OUTPUT_FILE) succeeds
DocSave ==
    /\ AtStmt("save")
    /\ saveCalls' = saveCalls + 1
    /\ file' = Saved(file, doc)
    /\ pc' = pc + 1
    /\ UNCHANGED <<plan, run, status, i, doc, title, calls, printed,
                   sinkError, raised, prev>>

\* print(f"Documentation report saved to: {OUTPUT_FILE}")
PrintSaved ==
    /\ AtStmt("print")
    /\ printed' = TRUE
    /\ pc' = pc + 1
    /\ UNCHANGED <<plan, run, status, i, doc, title, calls, saveCalls,
                   sinkError, raised, file, prev>>

\* create_report() returns and the process exits normally
Return ==
    /\ Running
    /\ pc = Len(plan) + 1
    /\ status' = "done"
    /\ UNCHANGED <<plan, run, pc, i, doc, title, calls, saveCalls, printed,
                   sinkError, raised, file, prev>>

SinkRejectsSkipped ==
    /\ Running
    /\ pc <= Len(plan)
    /\ Cur.op \in {"add_heading", "add_paragraph"}
    /\ \E e \in AppendErrors : sinkError' = e
    /\ calls' = Append(calls, NextCall)
    /\ pc' = pc + 1
    /\ UNCHANGED <<plan, run, status, i, doc, title, saveCalls, printed,
                   raised, file, prev>>

\* an append call raises: the exception propagates out of create_report().
\* Whether the document had already inserted the paragraph when it raised is
\* the library's business: both outcomes are possible.
SinkRejects ==
    /\ Running
    /\ pc <= Len(plan)
    /\ \/ Cur.op \in {"add_heading", "add_paragraph"}
       \/ Cur.op = "for" /\ i < Len(Cur.items)
    /\ \E e \in AppendErrors :
          /\ sinkError' = e
          /\ raised' = Propagate(e)
    /\ calls' = Append(calls, NextCall)
    /\ doc' \in {doc, Append(doc, NewBlock(NextCall))}
    /\ status' = "failed"
    /\ UNCHANGED <<plan, run, pc, i, title, saveCalls, printed, file, prev>>

SaveFailsSwallowed ==
    /\ AtStmt("save")
    /\ saveCalls' = saveCalls + 1
    /\ sinkError' = SaveError
    /\ file' \in {file, BrokenFile}
    /\ pc' = pc + 1
    /\ UNCHANGED <<plan, run, status, i, doc, title, calls, printed, raised,
                   prev>>

\* doc.save(OUTPUT_FILE) raises: the file is untouched or left half-written
SaveFails ==
    /\ AtStmt("save")
    /\ saveCalls' = saveCalls + 1
    /\ sinkError' = SaveError
    /\ raised' = Propagate(SaveError)
    /\ file' \in {file, BrokenFile}
    /\ status' = "failed"
    /\ UNCHANGED <<plan, run, pc, i, doc, title, calls, printed, prev>>

Next ==
    \/ StartRun
    \/ NewDocument
    \/ AddHeading
    \/ SetAlignment
    \/ AddParagraph
    \/ SetSpaceAfter
    \/ ForBody
    \/ ForExit
    \/ DocSave
    \/ PrintSaved
    \/ Return
    \/ SinkRejects
    \/ SaveFails

Spec == Init /\ [][Next]_vars

(***************************************************************************)
(* Loop study: create_report() with the literal lists of two of its        *)
(* for-loops replaced by arbitrary short lists, the empty list included.   *)
(***************************************************************************)
ItemTexts == {"a", "b"}

ItemLists == UNION {[1..n -> ItemTexts] : n \in 0..MaxItems}

BulletPlan(xs, ys) ==
  <<StmtDocument(15),
    StmtHeading(18, "LinguaFlash", 0, "title"),
    StmtAlignment(19, "title", "CENTER"),
    StmtParagraph(22, ""),
    StmtSpaceAfter(23, 24),
    StmtHeading(30, "1.1 Functional Requirements", 2, ""),
    StmtFor(39, xs),
    StmtHeading(42, "1.2 Non-Functional Requireme", 2, ""),
    StmtFor(49, ys),
    StmtParagraph(53, "Primary user: Language learn"),
    StmtSave(223),
    StmtPrint(224)>>

InitBullets ==
    /\ plan \in {BulletPlan(xs, ys) : xs, ys \in ItemLists}
    /\ file \in PriorFiles
    /\ run = 0
    /\ status = "idle"
    /\ pc = 1
    /\ i = 0
    /\ doc = EmptyDocument
    /\ title = 0
    /\ calls = <<>>
    /\ saveCalls = 0
    /\ printed = FALSE
    /\ sinkError = ""
    /\ raised = ""
    /\ prev = NoPrev

SpecBullets == InitBullets /\ [][Next]_vars

(***************************************************************************)
(* The content blocks in program order, read off the statement list        *)
(***************************************************************************)
IsPrefix(s, t) == Len(s) <= Len(t) /\ s = SubSeq(t, 1, Len(s))

\* Number of content blocks a statement contributes.
Contribution(s) ==
    IF s.op \in {"add_heading", "add_paragraph"} THEN 1
    ELSE IF s.op = "for" THEN Len(s.items)
    ELSE 0

\* The content blocks a statement stands for, in order.
StmtBlocks(s) ==
    IF s.op = "add_heading"
      THEN <<[fn |-> "add_heading", text |-> s.text, level |-> s.level]>>
    ELSE IF s.op = "add_paragraph"
      THEN <<[fn |-> "add_paragraph", text |-> s.text, style |-> ""]>>
    ELSE IF s.op = "for"
      THEN [k \in 1..Len(s.items) |->
              [fn |-> "add_paragraph", text |-> s.items[k],
               style |-> "List Bullet"]]
    ELSE <<>>

RECURSIVE PlanBlocks(_)
PlanBlocks(p) ==
    IF p = <<>> THEN <<>> ELSE StmtBlocks(Head(p)) \o PlanBlocks(Tail(p))

RECURSIVE BlockCount(_)
BlockCount(p) ==
    IF p = <<>> THEN 0 ELSE Contribution(Head(p)) + BlockCount(Tail(p))

\* Statements already completed in this run.
Completed == SubSeq(plan, 1, pc - 1)

\* Blocks due so far: those of completed statements plus the first i items
\* of the loop in progress.
BlocksDue ==
    PlanBlocks(Completed) \o
      (IF pc <= Len(plan) /\ plan[pc].op = "for"
         THEN SubSeq(StmtBlocks(plan[pc]), 1, i) ELSE <<>>)

DocCalls == [k \in 1..Len(doc) |-> doc[k].call]

\* C1: the append calls issued to the document are exactly the content
\* blocks in program order: while running, the calls so far are the blocks
\* due so far, one call per block and one paragraph per call; a run that
\* returns has issued the whole block sequence; a run that failed has issued
\* a prefix of it.
C1_OrderPreserved ==
    /\ status = "running" => calls = BlocksDue /\ DocCalls = calls
    /\ status = "done" => calls = PlanBlocks(plan) /\ DocCalls = calls
    /\ status = "failed" => IsPrefix(calls, PlanBlocks(plan))

C1_Witness ==
    /\ status = "done"
    /\ Len(calls) = BlockCount(plan)
    /\ Len(calls) > Len(plan)

\* C2: doc.save is invoked at most once in a run, only when every content
\* block has been appended, and a run that has passed the save statement
\* (in particular one that returned) has invoked it exactly once.
C2_SaveOnce ==
    /\ saveCalls <= 1
    /\ saveCalls = 1 => DocCalls = PlanBlocks(plan) /\ calls = DocCalls
    /\ status = "done" => saveCalls = 1
    /\ sinkError = SaveError => saveCalls = 1
    /\ (status = "running" /\ pc > Len(plan)) => saveCalls = 1
    /\ (status # "idle" /\ Len(doc) < BlockCount(plan)) => saveCalls = 0

C2_Witness ==
    /\ status = "done"
    /\ saveCalls = 1
    /\ Len(calls) = BlockCount(plan)

\* C3: once an append call has been rejected the run is over: no further
\* append call, no save, no retry of the failing call (the call trace, the
\* document and the save count never change again in that run), and the
\* exception that leaves create_report() is the one the document raised.
C3_AbortOnReject ==
    /\ [][(sinkError \in AppendErrors /\ run' = run)
            => /\ calls' = calls
               /\ doc' = doc
               /\ saveCalls' = saveCalls
               /\ file' = file
               /\ printed' = printed
               /\ sinkError' = sinkError
               /\ status' = "failed"]_vars
    /\ [](sinkError \in AppendErrors
            => /\ status = "failed"
               /\ raised = sinkError
               /\ saveCalls = 0
               /\ ~printed
               /\ IsPrefix(calls, PlanBlocks(plan)))

C3_Witness ==
    /\ status = "failed"
    /\ sinkError \in AppendErrors
    /\ Len(calls) > 3
    /\ Len(calls) < BlockCount(plan)

\* C4: a run whose doc.save raised ends failed and prints no success
\* message, however many append calls succeeded before; the success message
\* and a normal return occur only after a save that returned.
C4_NoSuccessOnSaveFailure ==
    /\ sinkError = SaveError => status = "failed" /\ ~printed
    /\ status = "failed" => ~printed /\ raised # ""
    /\ printed => sinkError = "" /\ saveCalls = 1 /\ file.valid
    /\ status = "done" => sinkError = "" /\ saveCalls = 1 /\ printed

C4_Witness ==
    /\ status = "failed"
    /\ sinkError = SaveError
    /\ Len(calls) = BlockCount(plan)
    /\ saveCalls = 1

\* C5 (as stated): a heading call with level 0 or a negative level fails and
\* leaves the document unchanged.
C5_ZeroLevelRejected ==
    [][(AtStmt("add_heading") /\ Cur.level <= 0)
          => (doc' = doc /\ status' = "failed")]_vars

\* C5 (amended): the heading call with level 0 is the title call; when the
\* document accepts it the block sequence after the call is the sequence
\* before it plus one level-0 heading block, bound to title; the program
\* issues no heading call with a negative level.
C5_TitleAccepted ==
    /\ [][(AtStmt("add_heading") /\ Cur.level = 0 /\ sinkError' = "")
            => /\ doc' = Append(doc,
                     [call |-> [fn |-> "add_heading", text |-> Cur.text,
                                level |-> 0],
                      alignment |-> "", space_after |-> 0])
               /\ title' = Len(doc')
               /\ status' = "running"]_vars
    /\ [](\A k \in 1..Len(calls) :
            calls[k].fn = "add_heading" => calls[k].level >= 0)

C5_Witness ==
    /\ status = "running"
    /\ Len(doc) = 1
    /\ doc[1].call.fn = "add_heading"
    /\ doc[1].call.level = 0
    /\ title = 1

\* Index in calls of the first block of statement k.
Offset(k) == BlockCount(SubSeq(plan, 1, k - 1))

BulletCalls == {k \in 1..Len(calls) :
                  calls[k].fn = "add_paragraph"
                  /\ calls[k].style = "List Bullet"}

\* Items of the for-loops consumed so far in this run.
ItemsDue ==
    BlockCount(SelectSeq(Completed, LAMBDA s : s.op = "for"))
      + (IF pc <= Len(plan) /\ plan[pc].op = "for" THEN i ELSE 0)

\* C6: a for-loop over N items contributes exactly N "List Bullet"
\* paragraphs and N append calls, in the order of the items; over the empty
\* list it contributes nothing and raises nothing; the number of paragraphs
\* in the document is the sum of the contributions of the statements run.
C6_BulletContribution ==
    /\ [](status \in {"running", "done"} =>
            /\ Len(doc) = BlockCount(Completed)
                            + (IF pc <= Len(plan) /\ plan[pc].op = "for"
                                 THEN i ELSE 0)
            /\ Cardinality(BulletCalls) = ItemsDue
            /\ \A k \in 1..(pc - 1) :
                 plan[k].op = "for" =>
                   \A j \in 1..Len(plan[k].items) :
                      /\ doc[Offset(k) + j].call.text = plan[k].items[j]
                      /\ doc[Offset(k) + j].call.style = "List Bullet"
                      /\ calls[Offset(k) + j] = doc[Offset(k) + j].call)
    /\ [][(AtStmt("for") /\ Cur.items = <<>>)
            => /\ doc' = doc
               /\ calls' = calls
               /\ sinkError' = ""
               /\ status' = "running"]_vars

C6_Witness ==
    /\ status = "done"
    /\ \E k \in 1..Len(plan) : plan[k].op = "for" /\ plan[k].items = <<>>
    /\ \E k \in 1..Len(plan) :
          plan[k].op = "for" /\ Len(plan[k].items) = MaxItems
    /\ Cardinality(BulletCalls) = MaxItems

\* C7: two successful runs issue element-wise identical call traces and
\* build identical documents, whatever OUTPUT_FILE held before each of them;
\* a later run in progress has issued a prefix of the earlier trace.
C7_Deterministic ==
    /\ (prev.ok /\ status = "done") => calls = prev.calls /\ doc = prev.doc
    /\ (prev.ok /\ status = "running") =>
          /\ IsPrefix(calls, prev.calls)
          /\ Len(doc) <= Len(prev.doc)
          /\ \A k \in 1..Len(doc) : doc[k].call = prev.doc[k].call

C7_Witness ==
    /\ prev.ok
    /\ status = "done"
    /\ run = 2
    /\ Len(calls) = BlockCount(plan)

\* C8: every heading call has a level >= 0, the first call of a run is the
\* level-0 title heading, and no other call is a heading of level 0.
C8_HeadingLevels ==
    /\ \A k \in 1..Len(calls) :
          calls[k].fn = "add_heading" =>
             /\ calls[k].level >= 0
             /\ (calls[k].level = 0 <=> k = 1)
    /\ Len(calls) >= 1 => calls[1].fn = "add_heading" /\ calls[1].level = 0

C8_Witness ==
    /\ status = "done"
    /\ Cardinality({k \in 1..Len(calls) :
                      calls[k].fn = "add_heading" /\ calls[k].level >= 1}) > 3

\* C9: after a successful run OUTPUT_FILE holds exactly the document of
\* that run, which is exactly the block sequence of the plan built from an
\* empty document: nothing of the file's earlier content remains.
C9_Overwritten ==
    status = "done" =>
       /\ file.exists /\ file.valid
       /\ file.body = doc
       /\ Len(file.body) = BlockCount(plan)
       /\ [k \in 1..Len(file.body) |-> file.body[k].call] = PlanBlocks(plan)

C9_Witness ==
    /\ status = "done"
    /\ run = 2
    /\ prev.ok
    /\ Len(file.body) = BlockCount(plan)

\* Index in plan of the space_after assignment.
SpaceStmt == CHOOSE k \in 1..Len(plan) : plan[k].op = "set_space_after"

\* C10: the title is a level-0 heading, the only centred paragraph; the
\* space_after assignment changes the paragraph that is last when it runs,
\* the empty-text paragraph, and no other paragraph ever has spacing set.
C10_TitleAndSpacer ==
    /\ [](status \in {"running", "done"} =>
            /\ \A k \in 1..Len(doc) :
                 /\ doc[k].alignment # "" =>
                       /\ k = 1
                       /\ doc[k].alignment = "CENTER"
                       /\ doc[k].call.fn = "add_heading"
                       /\ doc[k].call.level = 0
                 /\ doc[k].space_after # 0 =>
                       /\ k = Offset(SpaceStmt)
                       /\ doc[k].space_after = 24 * 12700
                       /\ doc[k].call.fn = "add_paragraph"
                       /\ doc[k].call.text = ""
            /\ pc > SpaceStmt =>
                 /\ doc[1].alignment = "CENTER"
                 /\ doc[Offset(SpaceStmt)].space_after # 0)
    /\ [][AtStmt("set_space_after")
            => /\ Len(doc') = Len(doc)
               /\ doc'[Len(doc)].space_after # 0
               /\ \A k \in 1..(Len(doc) - 1) : doc'[k] = doc[k]]_vars

C10_Witness ==
    /\ status = "done"
    /\ doc[1].alignment = "CENTER"
    /\ doc[Offset(SpaceStmt)].space_after = 24 * 12700
    /\ Offset(SpaceStmt) > 1
====
